---- MODULE Spec2Model ----
(***************************************************************************)
(* State-machine model of start_web_dashboard.py: the dashboard server's   *)
(* start-up pipeline (start_server), its port discovery                    *)
(* (find_available_port), the request handler (DashboardHandler) and the   *)
(* landing-page generator (create_dashboard_index).                        *)
(*                                                                         *)
(* Strings that the code inspects (request paths, file names) are modelled *)
(* as sequences of tokens, e.g. "/app.js?v=2" is                           *)
(* <<"/", "app", ".js", "?", "v=2">>, so that equality tests, endswith     *)
(* and the query-string split are computed and not tabulated.              *)
(***************************************************************************)
EXTENDS Integers, Sequences, FiniteSets, TLC

VARIABLES
    pc,            \* position of the main thread inside start_server
    exitCode,      \* process exit status, NoExit while the process runs
    printed,       \* kinds of console messages printed in this run
    rootExists,    \* whether the directory web_dashboard exists
    fs,            \* file name -> content (NoFile when absent)
    held,          \* <<address, port>> pairs bound by other processes
    port,          \* start_server's local variable `port`
    args,          \* the command line: [port, auto_open]
    probeOpen,     \* probe sockets of this process that are still open
    socketsOpened, \* number of sockets this run has created so far
    listenPort,    \* port of the open listening socket, NoPort when none
    wroteIndex,    \* whether this run has written dashboard_index.html
    dataStatus,    \* the dict built by check_data_files
    dashboards,    \* the list built by list_available_dashboards
    browser,       \* state of the browser thread
    interrupted,   \* whether KeyboardInterrupt has been delivered
    inflight,      \* the request being handled, NoRequest when none
    response,      \* the last response written, NoResponse when none
    logged,        \* console lines of the request handled last
    servedAfterInterrupt, \* whether a request was handled after the interrupt
    runs,          \* number of times the script has been started
    envBudget      \* remaining steps of the other processes

vars == <<pc, exitCode, printed, rootExists, fs, held, port, args,
          probeOpen, socketsOpened, listenPort, wroteIndex, dataStatus,
          dashboards, browser, interrupted, inflight, response, logged,
          servedAfterInterrupt, runs, envBudget>>

----------------------------------------------------------------------------
(* Bounds of the model.                                                    *)

MaxRuns == 2
MaxEnvSteps == 1
MaxVer == 2
MaxContested == 1

----------------------------------------------------------------------------
(* Program constants.                                                      *)

PortScanRange == 100
DefaultPort == 8080
MaxPortNumber == 65535

NoExit == -1
NoPort == -1

----------------------------------------------------------------------------
(* File names under web_dashboard/.                                        *)

DashboardIndex == <<"dashboard_index", ".html">>
ClassicIndex == <<"index", ".html">>
MemoryDashboard == <<"memory_analysis_dashboard", ".html">>
UnsafeDashboard == <<"unsafe_ffi_dashboard", ".html">>
UnsafeDashboardV2 == <<"unsafe_ffi_dashboard_v2", ".html">>
LifecycleDashboard == <<"lifecycle_dashboard", ".html">>
DataFile == <<"data", ".json">>
ScriptAsset == <<"app", ".js">>
StyleAsset == <<"styles", ".css">>

Files == {DashboardIndex, ClassicIndex, MemoryDashboard, UnsafeDashboard,
          UnsafeDashboardV2, LifecycleDashboard, DataFile, ScriptAsset,
          StyleAsset}

NoFile == [kind |-> "absent"]

FileContent(f, v) == [kind |-> "file", of |-> f, ver |-> v]

exists(files, f) == f \in DOMAIN files /\ files[f] # NoFile

----------------------------------------------------------------------------
(* create_dashboard_index: the page is a literal of the source; its cards  *)
(* are the four hrefs of the dashboard-grid, its quick links the four      *)
(* alias shortcuts.                                                        *)

QuickLinks == {<<"/", "unsafe">>, <<"/", "memory">>, <<"/", "lifecycle">>,
               <<"/", "classic">>}

IndexCards == {UnsafeDashboardV2, MemoryDashboard, UnsafeDashboard,
               ClassicIndex}

index_content == [kind |-> "generated", links |-> QuickLinks,
                  cards |-> IndexCards]

create_dashboard_index(files) ==
    [files EXCEPT ![DashboardIndex] = index_content]

----------------------------------------------------------------------------
(* find_available_port.  A probe is a bind of ('localhost', p): it fails   *)
(* with OSError when another socket holds p on the loopback or on the      *)
(* wildcard address, and with OverflowError (which is not an OSError) when *)
(* p is not a 16-bit port number.  Port 0 asks the system for any free     *)
(* port and always binds.                                                  *)

Addresses == {"loopback", "wildcard", "external"}

ProbeBind(h, p) ==
    IF p < 0 \/ p > MaxPortNumber THEN "OverflowError"
    ELSE IF p # 0 /\ (<<"loopback", p>> \in h \/ <<"wildcard", p>> \in h)
         THEN "OSError"
         ELSE "ok"

\* Variant of find_available_port that falls back to the start port when
\* the range is exhausted.
find_available_port_fallback(h, start_port) ==
    [kind |-> "return", port |-> start_port, probes |-> PortScanRange,
     open |-> {}]

\* The loop of find_available_port in closed form: the ports are probed in
\* ascending order and the loop goes on only after an OSError, so it ends at
\* the least port of the range whose probe does not raise OSError, or runs
\* off the end of the range.  probes counts the probe sockets created; the
\* with-statement closes the probe socket on every way out, so none is left
\* open.
Least(S) == CHOOSE p \in S : \A q \in S : p <= q

find_available_port(h, start_port) ==
    LET range == start_port .. (start_port + PortScanRange - 1)
        stops == {p \in range : ProbeBind(h, p) # "OSError"}
    IN  IF stops = {}
        THEN [kind |-> "RuntimeError", port |-> NoPort,
              probes |-> PortScanRange, open |-> {}]
        ELSE LET p == Least(stops) IN
             IF ProbeBind(h, p) = "ok"
             THEN [kind |-> "return", port |-> p,
                   probes |-> p - start_port + 1, open |-> {}]
             ELSE [kind |-> "OverflowError", port |-> NoPort,
                   probes |-> p - start_port + 1, open |-> {}]

\* socketserver.TCPServer(("", port), ...): a bind of the wildcard address,
\* refused when any socket of another process holds the port.
ServerBind(h, p) ==
    IF p < 0 \/ p > MaxPortNumber THEN "OverflowError"
    ELSE IF p # 0 /\ (\E a \in Addresses : <<a, p>> \in h)
         THEN "OSError"
         ELSE "ok"

----------------------------------------------------------------------------
(* DashboardHandler.                                                       *)

Last(s) == s[Len(s)]

AssetSuffixes == {".css", ".js", ".svg", ".png", ".jpg"}

CorsHeaders ==
    {<<"Access-Control-Allow-Origin", "*">>,
     <<"Access-Control-Allow-Methods", "GET, POST, OPTIONS">>,
     <<"Access-Control-Allow-Headers", "Content-Type">>}

CacheHeader == <<"Cache-Control", "public, max-age=3600">>

\* end_headers: the headers it adds for a handler whose self.path is path.
end_headers(path) ==
    CorsHeaders \cup
    (IF Len(path) > 0 /\ Last(path) \in AssetSuffixes
     THEN {CacheHeader} ELSE {})

\* Variant of AliasResolve that matches the alias as a prefix of the path.
AliasResolvePrefix(path, files) ==
    IF path = <<"/">> THEN <<"/">> \o DashboardIndex
    ELSE IF SubSeq(path, 1, 2) = <<"/", "unsafe">>
    THEN <<"/">> \o UnsafeDashboardV2
    ELSE IF SubSeq(path, 1, 2) = <<"/", "memory">>
    THEN <<"/">> \o MemoryDashboard
    ELSE IF SubSeq(path, 1, 2) = <<"/", "classic">>
    THEN <<"/">> \o ClassicIndex
    ELSE IF SubSeq(path, 1, 2) = <<"/", "lifecycle">>
    THEN IF ~ exists(files, LifecycleDashboard)
         THEN <<"/">> \o MemoryDashboard
         ELSE <<"/">> \o LifecycleDashboard
    ELSE path

\* Variant of AliasResolve that sends /lifecycle to the lifecycle dashboard
\* without looking at the disk.
AliasResolveNoCheck(path, files) ==
    IF path = <<"/">> THEN <<"/">> \o DashboardIndex
    ELSE IF path = <<"/", "unsafe">> \/ path = <<"/", "unsafe", "/">>
    THEN <<"/">> \o UnsafeDashboardV2
    ELSE IF path = <<"/", "memory">> \/ path = <<"/", "memory", "/">>
    THEN <<"/">> \o MemoryDashboard
    ELSE IF path = <<"/", "classic">> \/ path = <<"/", "classic", "/">>
    THEN <<"/">> \o ClassicIndex
    ELSE IF path = <<"/", "lifecycle">> \/ path = <<"/", "lifecycle", "/">>
    THEN <<"/">> \o LifecycleDashboard
    ELSE path

\* The path rewriting of do_GET.
AliasResolve(path, files) ==
    IF path = <<"/">> THEN <<"/">> \o DashboardIndex
    ELSE IF path = <<"/", "unsafe">> \/ path = <<"/", "unsafe", "/">>
    THEN <<"/">> \o UnsafeDashboardV2
    ELSE IF path = <<"/", "memory">> \/ path = <<"/", "memory", "/">>
    THEN <<"/">> \o MemoryDashboard
    ELSE IF path = <<"/", "classic">> \/ path = <<"/", "classic", "/">>
    THEN <<"/">> \o ClassicIndex
    ELSE IF path = <<"/", "lifecycle">> \/ path = <<"/", "lifecycle", "/">>
    THEN IF ~ exists(files, LifecycleDashboard)
         THEN <<"/">> \o MemoryDashboard
         ELSE <<"/">> \o LifecycleDashboard
    ELSE path

\* SimpleHTTPRequestHandler.translate_path: the query string and the
\* fragment are dropped, then the leading "/"; the rest names the file
\* under web_dashboard.
RECURSIVE CutAtQuery(_)
CutAtQuery(path) ==
    IF path = <<>> \/ Head(path) \in {"?", "#"} THEN <<>>
    ELSE <<Head(path)>> \o CutAtQuery(Tail(path))

translate_path(path) ==
    LET p == CutAtQuery(path) IN
    IF p # <<>> /\ Head(p) = "/" THEN Tail(p) ELSE p

NoResponse == [status |-> 0, body |-> NoFile, headers |-> {}, path |-> <<>>,
               request |-> [method |-> "NONE", path |-> <<>>]]

\* Variant of send_error that ends the headers with the base class's
\* end_headers, so that error responses carry no added header.
send_error_plain(code, req, path) ==
    [status |-> code, body |-> NoFile, headers |-> {}, path |-> path,
     request |-> req]

\* send_error(code): status line, then end_headers of this handler.
send_error(code, req, path) ==
    [status |-> code, body |-> NoFile, headers |-> end_headers(path),
     path |-> path, request |-> req]

\* SimpleHTTPRequestHandler.do_GET on the rewritten path.
super_do_GET(req, path, files) ==
    LET f == translate_path(path) IN
    IF exists(files, f)
    THEN [status |-> 200, body |-> files[f], headers |-> end_headers(path),
          path |-> path, request |-> req]
    ELSE send_error(404, req, path)

do_GET(req, files) == super_do_GET(req, AliasResolve(req.path, files), files)

\* One request through the handler.  A request line that does not parse is
\* answered by send_error(400) before self.path is assigned: end_headers
\* then raises AttributeError on self.path and nothing is written.  A
\* method without a do_ method is answered 501.
handle_one_request(req, files) ==
    IF req.method = "MALFORMED" THEN NoResponse
    ELSE IF req.method = "GET" THEN do_GET(req, files)
    ELSE send_error(501, req, req.path)

\* log_message: the line is marked by the text it contains.  `'200' in
\* message` is a substring test; on token sequences it is a test for the
\* token.
Contains(message, t) == \E i \in 1 .. Len(message) : message[i] = t

log_message(message) ==
    [mark |-> IF Contains(message, "200") THEN "Success"
              ELSE IF Contains(message, "404") THEN "NotFound"
              ELSE "Other",
     message |-> message]

\* The request line as received: the method, the path as sent, the version.
requestline(req) ==
    IF req.method = "MALFORMED" THEN <<"GARBAGE">>
    ELSE <<req.method>> \o req.path \o <<"HTTP/1.1">>

\* BaseHTTPRequestHandler.log_request and log_error, which call log_message
\* with '"%s" %s %s' and "code %d, message %s".
log_request(req, code) ==
    log_message(requestline(req) \o <<ToString(code), "-">>)

log_error(code) == log_message(<<"code", ToString(code), "message">>)

\* The status the handler answers (or tries to answer) req with.
request_status(req, r) == IF req.method = "MALFORMED" THEN 400 ELSE r.status

\* The lines one request prints: send_response logs the request; send_error
\* logs the error first.
log_lines(req, r) ==
    LET code == request_status(req, r) IN
    IF code = 200 THEN <<log_request(req, code)>>
    ELSE <<log_error(code), log_request(req, code)>>

----------------------------------------------------------------------------
(* Inputs.                                                                 *)

\* Base ports given on the command line: the default, the highest base
\* whose scan range lies inside the port numbers, and the next one.
BasePorts == {DefaultPort, MaxPortNumber + 1 - PortScanRange,
              MaxPortNumber + 2 - PortScanRange}

\* Other processes hold a block of k consecutive ports from the base on one
\* address when the script starts (only port numbers can be held).
BlockLens == {0, PortScanRange - 1, PortScanRange}

HeldBlock(a, b, k) ==
    {<<a, p>> : p \in {q \in b .. (b + k - 1) : q <= MaxPortNumber}}

\* Ports the other processes claim and release while the script runs.
Contested(b) == b .. (b + MaxContested - 1)

\* Sets of files present in web_dashboard when the script starts.
InitPresent ==
    {{}, Files, Files \ {LifecycleDashboard}, Files \ {DashboardIndex},
     Files \ {MemoryDashboard, LifecycleDashboard},
     {DashboardIndex, LifecycleDashboard, ScriptAsset}}

\* Files the other processes create, rewrite and delete while it runs.
MutableFiles == {DashboardIndex, LifecycleDashboard, DataFile}

Requests ==
    [method : {"GET"},
     path : {<<"/">>,
             <<"/", "unsafe">>, <<"/", "unsafe", "/">>,
             <<"/", "memory">>, <<"/", "memory", "/">>,
             <<"/", "classic">>, <<"/", "classic", "/">>,
             <<"/", "lifecycle">>, <<"/", "lifecycle", "/">>,
             <<"/", "unsafe", "?", "tab=1">>,
             <<"/", "Unsafe">>,
             <<"/">> \o ScriptAsset,
             <<"/", "app", ".js", "?", "v=2">>,
             <<"/", "index", ".html", "?", "theme=", ".css">>,
             <<"/", "missing", ".png">>,
             <<"/", "report", "200", ".html">>}]
    \cup [method : {"POST"}, path : {<<"/", "unsafe">>}]
    \cup [method : {"MALFORMED"}, path : {<<>>}]

NoRequest == [method |-> "NONE", path |-> <<>>]

NoTime == -1

NoStatus == [has_data |-> FALSE, data_size |-> 0, last_modified |-> NoTime]

\* Path.stat() of a file with content c.
st_size(c) == IF c.kind = "generated" THEN 12288 ELSE c.ver * 1024
st_mtime(c) == IF c.kind = "generated" THEN 0 ELSE c.ver

known_dashboards == <<DashboardIndex, ClassicIndex, MemoryDashboard,
                      UnsafeDashboard, UnsafeDashboardV2>>

\* list_available_dashboards: the known dashboards present, in order.
RECURSIVE ListFrom(_, _)
ListFrom(files, i) ==
    IF i > Len(known_dashboards) THEN <<>>
    ELSE (IF exists(files, known_dashboards[i])
          THEN << <<known_dashboards[i], st_size(files[known_dashboards[i]])>> >>
          ELSE <<>>) \o ListFrom(files, i + 1)

list_available_dashboards(files) == ListFrom(files, 1)

----------------------------------------------------------------------------
(* Initial states: the script is started in some directory, with some      *)
(* ports held by other processes.                                          *)

\* The start of the script with the files, base ports, holders and block
\* lengths and auto_open flags drawn from the given sets.
InitWith(presents, bases, addrs, lens, autos) ==
    /\ pc = "start"
    /\ exitCode = NoExit
    /\ printed = {}
    /\ rootExists \in BOOLEAN
    /\ \E present \in presents :
          fs = [f \in Files |->
                  IF rootExists /\ f \in present THEN FileContent(f, 1)
                  ELSE NoFile]
    /\ args \in [port : bases, auto_open : autos]
    /\ \E a \in addrs, k \in lens : held = HeldBlock(a, args.port, k)
    /\ port = args.port
    /\ probeOpen = {}
    /\ socketsOpened = 0
    /\ listenPort = NoPort
    /\ wroteIndex = FALSE
    /\ dataStatus = NoStatus
    /\ dashboards = <<>>
    /\ browser = "none"
    /\ interrupted = FALSE
    /\ inflight = NoRequest
    /\ response = NoResponse
    /\ logged = <<>>
    /\ servedAfterInterrupt = FALSE
    /\ runs = 1
    /\ envBudget = MaxEnvSteps

\* Every directory content, with the default port free.
Init == InitWith(InitPresent, {DefaultPort}, {"loopback"}, {0}, BOOLEAN)

\* Every base port and every block of held ports, in a full directory.
InitPorts == InitWith({Files}, BasePorts, Addresses, BlockLens, {TRUE})

----------------------------------------------------------------------------
(* The process ends: every socket it holds is closed by the system.        *)

Exit(code, msgs) ==
    /\ pc' = "exited"
    /\ exitCode' = code
    /\ printed' = printed \cup msgs
    /\ listenPort' = NoPort
    /\ probeOpen' = {}
    /\ inflight' = NoRequest

\* An exception nobody catches: the interpreter prints the traceback and
\* ends the process with status 1.
Uncaught == Exit(1, {"traceback"})

----------------------------------------------------------------------------
(* start_server, statement by statement.                                   *)

\* Variant of CheckRoot without the directory check.
CheckRootSkipped ==
    /\ pc = "start"
    /\ pc' = "ensure_index"
    /\ UNCHANGED <<exitCode, printed, rootExists, fs, held, port, args,
                   probeOpen, socketsOpened, listenPort, wroteIndex,
                   dataStatus, dashboards, browser, interrupted, inflight,
                   response, logged, servedAfterInterrupt, runs, envBudget>>

\* if not os.path.exists("web_dashboard"): ... sys.exit(1)
CheckRoot ==
    /\ pc = "start"
    /\ IF ~ rootExists
       THEN /\ Exit(1, {"root_missing"})
            /\ UNCHANGED <<rootExists, fs, held, port, args, socketsOpened,
                           wroteIndex, dataStatus, dashboards, browser,
                           interrupted, response, logged, servedAfterInterrupt, runs,
                           envBudget>>
       ELSE /\ pc' = "ensure_index"
            /\ UNCHANGED <<exitCode, printed, rootExists, fs, held, port, args,
                           probeOpen, socketsOpened, listenPort, wroteIndex,
                           dataStatus, dashboards, browser, interrupted,
                           inflight, response, logged, servedAfterInterrupt, runs,
                           envBudget>>

\* Variant of index_missing that regenerates the page on every start.
index_always(files) == TRUE

\* The guard of the landing-page step.
index_missing(files) == ~ exists(files, DashboardIndex)

\* if not os.path.exists(".../dashboard_index.html"): create_dashboard_index()
EnsureIndex ==
    /\ pc = "ensure_index"
    /\ pc' = "check_data"
    /\ IF index_missing(fs)
       THEN /\ fs' = create_dashboard_index(fs)
            /\ wroteIndex' = TRUE
            /\ printed' = printed \cup {"creating_index"}
       ELSE UNCHANGED <<fs, wroteIndex, printed>>
    /\ UNCHANGED <<exitCode, rootExists, held, port, args, probeOpen,
                   socketsOpened, listenPort, dataStatus, dashboards, browser,
                   interrupted, inflight, response, logged, servedAfterInterrupt, runs,
                   envBudget>>

\* check_data_files, line 400: status = {'has_data': data_file.exists(), ...}
CheckDataStatus ==
    /\ pc = "check_data"
    /\ dataStatus' = [has_data |-> exists(fs, DataFile), data_size |-> 0,
                      last_modified |-> NoTime]
    /\ pc' = "check_data_if"
    /\ UNCHANGED <<exitCode, printed, rootExists, fs, held, port, args,
                   probeOpen, socketsOpened, listenPort, wroteIndex,
                   dashboards, browser, interrupted, inflight, response, logged,
                   servedAfterInterrupt, runs, envBudget>>

\* check_data_files, line 405: if data_file.exists(): ... else: print(...)
CheckDataBranch ==
    /\ pc = "check_data_if"
    /\ IF exists(fs, DataFile)
       THEN /\ pc' = "stat_size"
            /\ UNCHANGED printed
       ELSE /\ pc' = "list"
            /\ printed' = printed \cup {"data_warning"}
    /\ UNCHANGED <<exitCode, rootExists, fs, held, port, args, probeOpen,
                   socketsOpened, listenPort, wroteIndex, dataStatus,
                   dashboards, browser, interrupted, inflight, response, logged,
                   servedAfterInterrupt, runs, envBudget>>

\* check_data_files, line 406: status['data_size'] = data_file.stat().st_size
\* stat() of a file that is gone raises FileNotFoundError, caught nowhere.
StatSize ==
    /\ pc = "stat_size"
    /\ IF exists(fs, DataFile)
       THEN /\ dataStatus' = [dataStatus EXCEPT
                                !.data_size = st_size(fs[DataFile])]
            /\ pc' = "stat_mtime"
            /\ UNCHANGED <<exitCode, printed, probeOpen, listenPort, inflight>>
       ELSE /\ Uncaught
            /\ UNCHANGED dataStatus
    /\ UNCHANGED <<rootExists, fs, held, port, args, socketsOpened,
                   wroteIndex, dashboards, browser, interrupted, response, logged,
                   servedAfterInterrupt, runs, envBudget>>

\* check_data_files, line 407: status['last_modified'] = ....st_mtime
StatMtime ==
    /\ pc = "stat_mtime"
    /\ IF exists(fs, DataFile)
       THEN /\ dataStatus' = [dataStatus EXCEPT
                                !.last_modified = st_mtime(fs[DataFile])]
            /\ pc' = "list"
            /\ UNCHANGED <<exitCode, printed, probeOpen, listenPort, inflight>>
       ELSE /\ Uncaught
            /\ UNCHANGED dataStatus
    /\ UNCHANGED <<rootExists, fs, held, port, args, socketsOpened,
                   wroteIndex, dashboards, browser, interrupted, response, logged,
                   servedAfterInterrupt, runs, envBudget>>

\* dashboards = list_available_dashboards()
ListDashboards ==
    /\ pc = "list"
    /\ dashboards' = list_available_dashboards(fs)
    /\ pc' = "find_port"
    /\ UNCHANGED <<exitCode, printed, rootExists, fs, held, port, args,
                   probeOpen, socketsOpened, listenPort, wroteIndex,
                   dataStatus, browser, interrupted, inflight, response, logged,
                   servedAfterInterrupt, runs, envBudget>>

\* try: port = find_available_port(port)
\* except RuntimeError as e: print(...); sys.exit(1)
FindPort ==
    /\ pc = "find_port"
    /\ LET r == find_available_port(held, port) IN
       /\ socketsOpened' = socketsOpened + r.probes
       /\ IF r.kind = "return"
          THEN /\ port' = r.port
               /\ probeOpen' = r.open
               /\ pc' = "bind"
               /\ UNCHANGED <<exitCode, printed, listenPort, inflight>>
          ELSE IF r.kind = "RuntimeError"
          THEN /\ Exit(1, {"port_error"})
               /\ UNCHANGED port
          ELSE /\ Uncaught
               /\ UNCHANGED port
    /\ UNCHANGED <<rootExists, fs, held, args, wroteIndex, dataStatus,
                   dashboards, browser, interrupted, response, logged,
                   servedAfterInterrupt, runs, envBudget>>

\* Variant of Bind in which the failed bind is caught by nobody.
BindUncaught ==
    /\ pc = "bind"
    /\ socketsOpened' = socketsOpened + 1
    /\ IF ServerBind(held, port) = "ok"
       THEN /\ listenPort' = port
            /\ pc' = "banner"
            /\ UNCHANGED <<exitCode, printed, probeOpen, inflight>>
       ELSE Uncaught
    /\ UNCHANGED <<rootExists, fs, held, port, args, wroteIndex, dataStatus,
                   dashboards, browser, interrupted, response, logged,
                   servedAfterInterrupt, runs, envBudget>>

\* with socketserver.TCPServer(("", port), DashboardHandler) as httpd:
\* a failed bind is caught by `except Exception`: print, sys.exit(1).
Bind ==
    /\ pc = "bind"
    /\ socketsOpened' = socketsOpened + 1
    /\ IF ServerBind(held, port) = "ok"
       THEN /\ listenPort' = port
            /\ pc' = "banner"
            /\ UNCHANGED <<exitCode, printed, probeOpen, inflight>>
       ELSE Exit(1, {"server_error"})
    /\ UNCHANGED <<rootExists, fs, held, port, args, wroteIndex, dataStatus,
                   dashboards, browser, interrupted, response, logged,
                   servedAfterInterrupt, runs, envBudget>>

\* The banner, then: if auto_open: ... browser_thread.start()
Banner ==
    /\ pc = "banner"
    /\ printed' = printed \cup {"banner"}
    /\ browser' = IF args.auto_open THEN "sleeping" ELSE browser
    /\ pc' = "serving"
    /\ UNCHANGED <<exitCode, rootExists, fs, held, port, args, probeOpen,
                   socketsOpened, listenPort, wroteIndex, dataStatus,
                   dashboards, interrupted, inflight, response, logged,
                   servedAfterInterrupt, runs, envBudget>>

\* What open_browser does with the outcome of webbrowser.open(server_url):
\* the call returns True when a browser was launched, returns False when
\* none could be, or raises.  The return value is not looked at.
open_browser(outcome) ==
    IF outcome = "True"
    THEN [browser |-> "opened", msgs |-> {"browser_opened"}]
    ELSE IF outcome = "False"
    THEN [browser |-> "not_opened", msgs |-> {"browser_opened"}]
    ELSE [browser |-> "failed", msgs |-> {"browser_warning"}]

\* open_browser, after its sleep.
OpenBrowser ==
    /\ browser = "sleeping"
    /\ pc # "exited"
    /\ \E outcome \in {"True", "False", "raises"} :
          /\ browser' = open_browser(outcome).browser
          /\ printed' = printed \cup open_browser(outcome).msgs
    /\ UNCHANGED <<pc, exitCode, rootExists, fs, held, port, args, probeOpen,
                   socketsOpened, listenPort, wroteIndex, dataStatus,
                   dashboards, interrupted, inflight, response, logged,
                   servedAfterInterrupt, runs, envBudget>>

\* httpd.serve_forever(): a connection is accepted ...
Accept ==
    /\ pc = "serving"
    /\ inflight = NoRequest
    /\ \E req \in Requests : inflight' = req
    /\ response' = NoResponse
    /\ logged' = <<>>
    /\ servedAfterInterrupt' = (servedAfterInterrupt \/ interrupted)
    /\ UNCHANGED <<pc, exitCode, printed, rootExists, fs, held, port, args,
                   probeOpen, socketsOpened, listenPort, wroteIndex,
                   dataStatus, dashboards, browser, interrupted, runs,
                   envBudget>>

\* Variant of Handle in which an exception of the handler leaves
\* serve_forever and ends the process.
HandleCrash ==
    /\ pc = "serving"
    /\ inflight # NoRequest
    /\ LET r == handle_one_request(inflight, fs) IN
       /\ response' = r
       /\ logged' = log_lines(inflight, r)
       /\ IF r = NoResponse
          THEN Uncaught
          ELSE /\ inflight' = NoRequest
               /\ UNCHANGED <<pc, exitCode, printed, listenPort, probeOpen>>
    /\ servedAfterInterrupt' = (servedAfterInterrupt \/ interrupted)
    /\ UNCHANGED <<rootExists, fs, held, port, args, socketsOpened,
                   wroteIndex, dataStatus, dashboards, browser, interrupted,
                   runs, envBudget>>

\* ... and handled by a DashboardHandler.  An exception of the handler is
\* reported by socketserver's handle_error and the loop goes on.
Handle ==
    /\ pc = "serving"
    /\ inflight # NoRequest
    /\ LET r == handle_one_request(inflight, fs) IN
       /\ response' = r
       /\ logged' = log_lines(inflight, r)
       /\ printed' = IF r = NoResponse
                     THEN printed \cup {"handler_traceback"}
                     ELSE printed
    /\ inflight' = NoRequest
    /\ servedAfterInterrupt' = (servedAfterInterrupt \/ interrupted)
    /\ UNCHANGED <<pc, exitCode, rootExists, fs, held, port, args, probeOpen,
                   socketsOpened, listenPort, wroteIndex, dataStatus,
                   dashboards, browser, interrupted, runs, envBudget>>

\* Variant of on_interrupt in which the interrupt is swallowed inside the
\* serving loop.
on_interrupt_swallowed == [pc |-> "serving", code |-> 0, msgs |-> {}]

\* What start_server does with a KeyboardInterrupt raised inside the with
\* block: the block's exit closes the listening socket, the except clause
\* prints the notice, start_server returns and the process ends with 0.
on_interrupt == [pc |-> "exited", code |-> 0, msgs |-> {"stopped"}]

Interrupt ==
    /\ pc \in {"banner", "serving"}
    /\ interrupted' = TRUE
    /\ pc' = on_interrupt.pc
    /\ exitCode' = IF on_interrupt.pc = "exited" THEN on_interrupt.code
                   ELSE exitCode
    /\ printed' = printed \cup on_interrupt.msgs
    /\ listenPort' = IF on_interrupt.pc = "exited" THEN NoPort ELSE listenPort
    /\ inflight' = NoRequest
    /\ probeOpen' = {}
    /\ UNCHANGED <<rootExists, fs, held, port, args, socketsOpened,
                   wroteIndex, dataStatus, dashboards, browser, response, logged,
                   servedAfterInterrupt, runs, envBudget>>

\* The operator runs the same command again.
Restart ==
    /\ pc = "exited"
    /\ runs < MaxRuns
    /\ runs' = runs + 1
    /\ pc' = "start"
    /\ exitCode' = NoExit
    /\ printed' = {}
    /\ port' = args.port
    /\ probeOpen' = {}
    /\ socketsOpened' = 0
    /\ listenPort' = NoPort
    /\ wroteIndex' = FALSE
    /\ dataStatus' = NoStatus
    /\ dashboards' = <<>>
    /\ browser' = "none"
    /\ interrupted' = FALSE
    /\ inflight' = NoRequest
    /\ response' = NoResponse
    /\ logged' = <<>>
    /\ servedAfterInterrupt' = FALSE
    /\ UNCHANGED <<rootExists, fs, held, args, envBudget>>

----------------------------------------------------------------------------
(* The other processes of the machine.                                     *)

\* Another process creates a file, or rewrites it with new content.
EnvWriteFile ==
    /\ envBudget > 0
    /\ rootExists
    /\ \E f \in MutableFiles :
          /\ IF fs[f].kind = "file" THEN fs[f].ver < MaxVer ELSE TRUE
          /\ fs' = [fs EXCEPT ![f] =
                      IF fs[f].kind = "file"
                      THEN FileContent(f, fs[f].ver + 1)
                      ELSE FileContent(f, 1)]
    /\ envBudget' = envBudget - 1
    /\ UNCHANGED <<pc, exitCode, printed, rootExists, held, port, args,
                   probeOpen, socketsOpened, listenPort, wroteIndex,
                   dataStatus, dashboards, browser, interrupted, inflight,
                   response, logged, servedAfterInterrupt, runs>>

EnvDeleteFile ==
    /\ envBudget > 0
    /\ \E f \in MutableFiles :
          /\ fs[f] # NoFile
          /\ fs' = [fs EXCEPT ![f] = NoFile]
    /\ envBudget' = envBudget - 1
    /\ UNCHANGED <<pc, exitCode, printed, rootExists, held, port, args,
                   probeOpen, socketsOpened, listenPort, wroteIndex,
                   dataStatus, dashboards, browser, interrupted, inflight,
                   response, logged, servedAfterInterrupt, runs>>

\* Another process binds a port this process does not hold.
EnvClaimPort ==
    /\ envBudget > 0
    /\ \E a \in Addresses, p \in Contested(args.port) :
          /\ \A b \in Addresses : <<b, p>> \notin held
          /\ p # listenPort
          /\ held' = held \cup {<<a, p>>}
    /\ envBudget' = envBudget - 1
    /\ UNCHANGED <<pc, exitCode, printed, rootExists, fs, port, args,
                   probeOpen, socketsOpened, listenPort, wroteIndex,
                   dataStatus, dashboards, browser, interrupted, inflight,
                   response, logged, servedAfterInterrupt, runs>>

EnvReleasePort ==
    /\ envBudget > 0
    /\ \E a \in Addresses, p \in Contested(args.port) :
          /\ <<a, p>> \in held
          /\ held' = held \ {<<a, p>>}
    /\ envBudget' = envBudget - 1
    /\ UNCHANGED <<pc, exitCode, printed, rootExists, fs, port, args,
                   probeOpen, socketsOpened, listenPort, wroteIndex,
                   dataStatus, dashboards, browser, interrupted, inflight,
                   response, logged, servedAfterInterrupt, runs>>

----------------------------------------------------------------------------

\* The script beside processes that write and delete files.
Next ==
    \/ CheckRoot
    \/ EnsureIndex
    \/ CheckDataStatus
    \/ CheckDataBranch
    \/ StatSize
    \/ StatMtime
    \/ ListDashboards
    \/ FindPort
    \/ Bind
    \/ Banner
    \/ OpenBrowser
    \/ Accept
    \/ Handle
    \/ Interrupt
    \/ Restart
    \/ EnvWriteFile
    \/ EnvDeleteFile

\* The script beside processes that claim and release ports.
NextPorts ==
    \/ CheckRoot
    \/ EnsureIndex
    \/ CheckDataStatus
    \/ CheckDataBranch
    \/ StatSize
    \/ StatMtime
    \/ ListDashboards
    \/ FindPort
    \/ Bind
    \/ Banner
    \/ OpenBrowser
    \/ Accept
    \/ Handle
    \/ Interrupt
    \/ Restart
    \/ EnvClaimPort
    \/ EnvReleasePort

Spec == Init /\ [][Next]_vars

SpecPorts == InitPorts /\ [][NextPorts]_vars

TypeOK ==
    /\ pc \in {"start", "ensure_index", "check_data", "check_data_if",
               "stat_size", "stat_mtime", "list", "find_port", "bind",
               "banner", "serving", "exited"}
    /\ exitCode \in {NoExit, 0, 1}
    /\ (pc = "exited") = (exitCode # NoExit)
    /\ browser \in {"none", "sleeping", "opened", "not_opened", "failed"}

----------------------------------------------------------------------------
(* Properties.                                                             *)

\* A step in which find_available_port is called by start_server.
FindPortStep == pc = "find_port" /\ pc' # "find_port"

\* A step in which the handler answers the request in flight.
HandleStep == /\ pc = "serving" /\ pc' = "serving"
              /\ inflight # NoRequest /\ inflight' = NoRequest

ScanRange(start) == start .. (start + PortScanRange - 1)

\* C1: find_available_port(start) returns the least port of
\* [start, start+100) whose probe bind succeeds, with the probe socket
\* released, and raises the port-exhausted error (which start_server reports
\* as "port_error") exactly when no probe of the range succeeds.
C1_FindAvailablePort ==
    [][FindPortStep =>
         LET ok == {p \in ScanRange(port) : ProbeBind(held, p) = "ok"} IN
         IF ok # {}
         THEN /\ pc' = "bind"
              /\ port' = Least(ok)
              /\ probeOpen' = {}
         ELSE /\ pc' = "exited"
              /\ "port_error" \in printed']_vars

LifecycleAliases == {<<"/", "lifecycle">>, <<"/", "lifecycle", "/">>}

\* The alias table of the routing contract, as pairs <<request path, file>>.
AliasTable ==
    {<< <<"/">>, DashboardIndex >>,
     << <<"/", "unsafe">>, UnsafeDashboardV2 >>,
     << <<"/", "unsafe", "/">>, UnsafeDashboardV2 >>,
     << <<"/", "memory">>, MemoryDashboard >>,
     << <<"/", "memory", "/">>, MemoryDashboard >>,
     << <<"/", "classic">>, ClassicIndex >>,
     << <<"/", "classic", "/">>, ClassicIndex >>}

\* What a request for the file named by path gets from the static file
\* server when the directory holds files.
Served(r, path, files) ==
    IF exists(files, translate_path(path))
    THEN r.status = 200 /\ r.body = files[translate_path(path)]
    ELSE r.status = 404

\* C2: a GET path is resolved by exact match against the alias table; a path
\* that is no alias (and no /lifecycle alias) reaches the static file server
\* unchanged, which answers 404 when the file is absent.
C2_AliasExactMatch ==
    [][HandleStep /\ inflight.method = "GET"
         /\ inflight.path \notin LifecycleAliases =>
         /\ \A e \in AliasTable :
               inflight.path = e[1] => response'.path = <<"/">> \o e[2]
         /\ (\A e \in AliasTable : inflight.path # e[1])
               => response'.path = inflight.path
         /\ Served(response', response'.path, fs)]_vars

C2_Witness ==
    /\ response.request = [method |-> "GET", path |-> <<"/", "unsafe">>]
    /\ response.status = 200
    /\ response.body = FileContent(UnsafeDashboardV2, 1)

\* C3: every GET of /lifecycle or /lifecycle/ is answered with
\* lifecycle_dashboard.html when that file exists at the time of the request,
\* and with memory_analysis_dashboard.html (404 when that is absent too)
\* when it does not, whatever earlier requests saw.
C3_LifecycleFallback ==
    [][HandleStep /\ inflight.method = "GET"
         /\ inflight.path \in LifecycleAliases =>
         IF exists(fs, LifecycleDashboard)
         THEN /\ response'.status = 200
              /\ response'.body = fs[LifecycleDashboard]
         ELSE IF exists(fs, MemoryDashboard)
         THEN /\ response'.status = 200
              /\ response'.body = fs[MemoryDashboard]
         ELSE response'.status = 404]_vars

\* Another process wrote lifecycle_dashboard.html while the script ran, and
\* a later /lifecycle request got the new file.
C3_Witness ==
    /\ response.request.path \in LifecycleAliases
    /\ response.status = 200
    /\ response.body.of = LifecycleDashboard
    /\ response.body.ver > 1

\* C4: every response sent carries the three cross-origin headers.
C4_CorsOnEveryResponse ==
    response # NoResponse => CorsHeaders \subseteq response.headers

C4_Witness ==
    /\ response.status = 501
    /\ CorsHeaders \subseteq response.headers

\* C5: a response carries Cache-Control: public, max-age=3600 exactly when
\* the extension of the resolved file is .css, .js, .svg, .png or .jpg.
C5_CacheIffAssetFile ==
    response # NoResponse =>
       (CacheHeader \in response.headers
          <=> Last(translate_path(response.path)) \in AssetSuffixes)

\* C6: the landing-page step leaves an existing dashboard_index.html alone;
\* over all starts the script never changes the content of an existing
\* landing page (only other processes do).
C6_IndexNeverOverwritten ==
    [][exists(fs, DashboardIndex) =>
         /\ (pc = "ensure_index" /\ pc' # pc => fs' = fs /\ ~ wroteIndex')
         /\ (fs'[DashboardIndex] # fs[DashboardIndex]
               => envBudget' < envBudget)]_vars

\* The second start finds the page the first start generated and skips the
\* step.
C6_Witness ==
    /\ runs = 2
    /\ pc = "check_data"
    /\ ~ wroteIndex
    /\ fs[DashboardIndex] = index_content

\* C7: every card of a generated landing page names a dashboard file that
\* exists when the page is generated.
C7_CardsOnlyForPresentFiles ==
    [][~ wroteIndex /\ wroteIndex' =>
         \A c \in fs'[DashboardIndex].cards : exists(fs, c)]_vars

\* C8: without the root directory the script does nothing but exit with
\* status 1: no socket is created, no landing page written, no browser
\* thread started.
C8_MissingRootExitsFirst ==
    ~ rootExists =>
       /\ pc \in {"start", "exited"}
       /\ pc = "exited" => (exitCode = 1 /\ "root_missing" \in printed)
       /\ socketsOpened = 0
       /\ listenPort = NoPort
       /\ probeOpen = {}
       /\ ~ wroteIndex
       /\ browser = "none"

C8_Witness == ~ rootExists /\ pc = "exited" /\ exitCode = 1

\* C9: an interrupt in the serving loop ends the loop, closes the listening
\* socket, prints the shutdown notice and ends the process with status 0;
\* no request is accepted or handled after it.
C9_InterruptStopsServing ==
    /\ [][pc = "serving" /\ ~ interrupted /\ interrupted' =>
            /\ pc' = "exited"
            /\ exitCode' = 0
            /\ listenPort' = NoPort
            /\ "stopped" \in printed']_vars
    /\ [](~ servedAfterInterrupt)
    /\ [](interrupted => inflight = NoRequest)

C9_Witness ==
    /\ interrupted
    /\ pc = "exited"
    /\ exitCode = 0
    /\ response.status = 200

\* Another socket holds port p on an address the probe's bind conflicts with.
OccupiedPort(h, p) == <<"loopback", p>> \in h \/ <<"wildcard", p>> \in h

\* C10: when every port of [base, base+100) is occupied, the script prints
\* the port error and exits with status 1, having created the 100 probe
\* sockets only: no listening socket, no browser thread.
C10_PortExhaustedExits ==
    /\ [][FindPortStep /\ (\A p \in ScanRange(port) : OccupiedPort(held, p)) =>
            /\ pc' = "exited"
            /\ exitCode' = 1
            /\ "port_error" \in printed'
            /\ socketsOpened' = PortScanRange
            /\ listenPort' = NoPort
            /\ browser' = "none"]_vars
    /\ []("port_error" \in printed =>
            /\ pc = "exited" /\ exitCode = 1
            /\ listenPort = NoPort /\ browser = "none")

C10_Witness ==
    /\ "port_error" \in printed
    /\ exitCode = 1
    /\ \A p \in ScanRange(args.port) : OccupiedPort(held, p)

\* A step in which start_server constructs the TCPServer.
BindStep == pc = "bind" /\ pc' # "bind"

\* C11: when another process holds the discovered port at the moment of the
\* server's bind, the failure is reported as a server error and the process
\* exits with status 1: no traceback, no second bind, no other port.
C11_BindRaceIsServerError ==
    /\ [][BindStep /\ (\E a \in Addresses : <<a, port>> \in held) =>
            /\ pc' = "exited"
            /\ exitCode' = 1
            /\ "server_error" \in printed'
            /\ "traceback" \notin printed'
            /\ listenPort' = NoPort
            /\ port' = port
            /\ socketsOpened' = socketsOpened + 1]_vars
    /\ []("server_error" \in printed =>
            /\ pc = "exited" /\ exitCode = 1
            /\ listenPort = NoPort /\ "banner" \notin printed)

\* The port the probe found free on the loopback address is held on it at
\* the bind: another process took it in between.
C11_Witness ==
    /\ "server_error" \in printed
    /\ exitCode = 1
    /\ <<"loopback", port>> \in held

\* The classification of a response by its status code.
Classify(status) ==
    IF status \in 200 .. 299 THEN "Success"
    ELSE IF status = 404 THEN "NotFound"
    ELSE "Other"

\* C12: every answered request prints exactly one console line, marked by
\* the class of the response's status code alone.
C12_ClassifiedByStatus ==
    response # NoResponse =>
       /\ Len(logged) = 1
       /\ logged[1].mark = Classify(response.status)

\* C13: the browser thread exists only under auto_open, launches at most
\* once per run, never changes what the main thread does, and a launch
\* that fails prints the warning.
C13_BrowserLaunch ==
    /\ [](browser # "none" => args.auto_open)
    /\ [][(browser \in {"opened", "not_opened", "failed"}) =>
            (browser' = browser \/ pc' = "start")]_vars
    /\ [][browser = "sleeping" /\ browser' \notin {"sleeping", "none"} =>
            pc' = pc /\ exitCode' = exitCode /\ listenPort' = listenPort]_vars
    /\ [](browser \in {"not_opened", "failed"} =>
            "browser_warning" \in printed)

\* C14: a request whose handling fails leaves the process running and the
\* loop serving on the same socket, and every well-formed GET that is
\* handled is answered.
C14_RequestErrorsContained ==
    /\ [][pc = "serving" /\ inflight # NoRequest /\ inflight' = NoRequest
            /\ interrupted' = interrupted =>
            /\ pc' = "serving"
            /\ exitCode' = NoExit
            /\ listenPort' = listenPort
            /\ inflight.method = "GET" =>
                  /\ response'.request = inflight
                  /\ response'.status \in {200, 404}]_vars
    /\ [](pc = "serving" => listenPort # NoPort /\ exitCode = NoExit)

\* A request was answered after the handler had failed on an earlier one.
C14_Witness ==
    /\ "handler_traceback" \in printed
    /\ pc = "serving"
    /\ response.status = 200

\* C15: an interrupt that arrives while a request is being handled lets
\* that request's response be completed.
C15_InflightCompleted ==
    [][pc = "serving" /\ inflight # NoRequest
         /\ ~ interrupted /\ interrupted' =>
         response'.request = inflight]_vars

\* A status taken from one observation of data.json.
ConsistentStatus(st) ==
    \/ st = NoStatus
    \/ /\ st.has_data
       /\ \E v \in 1 .. MaxVer :
             /\ st.data_size = st_size(FileContent(DataFile, v))
             /\ st.last_modified = st_mtime(FileContent(DataFile, v))

\* C16: check_data_files returns, and what it returns is a status taken
\* from one observation of data.json.
C16_DataStatusConsistent ==
    /\ pc \notin {"check_data_if", "stat_size", "stat_mtime"}
          => ConsistentStatus(dataStatus)
    /\ "traceback" \notin printed

\* C17: when no other process has claimed or released a port, the server's
\* bind of the port the probe returned succeeds and the socket listens on
\* that port.
C17_ProbedPortBinds ==
    [][BindStep /\ envBudget = MaxEnvSteps =>
         /\ pc' = "banner"
         /\ listenPort' = port]_vars

====
